---- MODULE Spec2Model ----
(***************************************************************************)
(* Model of the websearch package: the search orchestrator                 *)
(* (websearch/websearch.py), the content fetcher (websearch/scraper.py)    *)
(* and the result schema (websearch/schema.py).                            *)
(*                                                                         *)
(* One search call is a sequential process whose position is pc.  The      *)
(* search provider (ddgs), the HTTP client (requests) and the text         *)
(* extractor (trafilatura) are the environment: what they answer is        *)
(* chosen when the code asks, or read from a fixed oracle (env) when two   *)
(* calls must see the same answers.                                        *)
(*                                                                         *)
(* Text (snippet, content, extractor output) is a sequence of one-char     *)
(* strings.  An optional Python value is None (<<>>) or Some(v) (<<v>>).   *)
(* The downloaded body is opaque to the code (it only goes to the          *)
(* extractor), so it is kept as its length in characters.                  *)
(***************************************************************************)
EXTENDS FiniteSets, Integers, Sequences, TLC

VARIABLES
    pc,             \* position of the search call
    params,         \* parameters the caller passes to the entry point
    args,           \* _ainvoke's local parameters after lines 87-91
    open,           \* HTTP clients / sessions currently held
    ddgs_out,       \* what ddgs.text did: "", "returned" or "raised"
    raw,            \* raw_ddgs_search_results
    search_results, \* _ainvoke's search_results.data
    fm_arg,         \* fetch_multiple: data of the collection passed in
    new_results,    \* fetch_multiple: new_results.data
    idx,            \* fetch_multiple: entry being fetched (1-based), 0 before
    budget,         \* fetch_content: max_content_length after line 73
    get_out,        \* fetch_content: outcome of session.get for this entry
    resp,           \* fetch_content: status and content type of the response
    content,        \* fetch_content: length of the body accumulated so far
    nchunks,        \* fetch_content: chunks iterated so far
    read_err,       \* fetch_content: iter_content raised
    extracted,      \* fetch_content: extracted_text as trafilatura returned it
    fetches,        \* number of session.get calls issued by this call
    result,         \* collection returned to the caller (data), when pc = "done"
    error,          \* exception surfaced to the caller, when pc = "raised"
    env,            \* environment oracle
    first,          \* outcome of the first call, once a second one is started
    loop            \* event loop the call runs on: who holds its thread

vars == <<pc, params, args, open, ddgs_out, raw, search_results, fm_arg,
          new_results, idx, budget, get_out, resp, content, nchunks, read_err,
          extracted, fetches, result, error, env, first, loop>>

----------------------------------------------------------------------------
\* Bounds of the model

MaxHits == 2        \* longest sequence of raw hits the provider returns
MaxTextLen == 2     \* longest extractor output
MaxChunks == 2      \* most chunks in one response body
MaxRequested == 2   \* largest max_results / fetch_content_max_chars a caller passes
MaxCleanLen == 4    \* longest extractor output when the whitespace cleaning is examined

----------------------------------------------------------------------------
\* Python values

None == <<>>
Some(v) == <<v>>
Opt(S) == {None} \cup {Some(v) : v \in S}

Min(a, b) == IF a < b THEN a ELSE b

\* x or d, for an optional int / bool / str
OrInt(x, d) == IF x = None \/ x[1] = 0 THEN d ELSE x[1]
OrBool(x, d) == IF x = None \/ x[1] = FALSE THEN d ELSE x[1]
OrStr(x, d) == IF x = None \/ x[1] = "" THEN d ELSE x[1]
OrText(x, d) == IF x = None \/ x[1] = <<>> THEN d ELSE x[1]

Chars == {"a", " "}
Texts == UNION {[1..n -> Chars] : n \in 0..MaxTextLen}

\* Texts with every kind of whitespace the extractor leaves in its output
CleanChars == {"a", " ", "\n", "\t"}
CleanTexts == UNION {[1..n -> CleanChars] : n \in 1..MaxCleanLen}

----------------------------------------------------------------------------
\* WebSearch class attributes (websearch.py:44-48) and WebScraper defaults

WebSearch_fetch_content == FALSE
WebSearch_max_results == 5
WebSearch_safesearch == "moderate"
WebSearch_backend == "google"
WebSearch_fetch_content_max_chars == 10000
WebScraper_max_content_length == 10000

NoTitle == "no title from ddgs"
NoBody == <<"n", "o", " ", "b", "o", "d", "y", " ", "f", "r", "o", "m", " ", "d", "d", "g", "s">>

----------------------------------------------------------------------------
\* Schema (schema.py) and the provider's raw hits

\* An href as the provider gives it, already split the way a URL parser
\* splits it: "example.com" has neither scheme nor host.
UrlA == [scheme |-> "https", host |-> "a.test"]
UrlB == [scheme |-> "http", host |-> "b.test"]
UrlNoScheme == [scheme |-> "", host |-> ""]
UrlFtp == [scheme |-> "ftp", host |-> "a.test"]
Hosts == {"a.test", "b.test"}

\* pydantic HttpUrl: scheme http or https, and a host
HttpUrl(href) == href # None /\ href[1].scheme \in {"http", "https"} /\ href[1].host # ""

\* raw hits: dicts whose href / title / body may be missing (None) or empty
Hits == {
    [href |-> Some(UrlA), title |-> Some("A"), body |-> Some(<<"B">>)],
    [href |-> Some(UrlB), title |-> None, body |-> Some(<<>>)],
    [href |-> Some(UrlNoScheme), title |-> Some("A"), body |-> Some(<<"B">>)],
    [href |-> Some(UrlFtp), title |-> Some(""), body |-> None],
    [href |-> None, title |-> Some("A"), body |-> Some(<<"B">>)] }

HitSeqs(n) == UNION {[1..k -> Hits] : k \in 0..n}

\* Variant: content taken from body without the fallback
SearchResult_content_no_fallback(hit) ==
    [url |-> hit.href[1],
     title |-> OrStr(hit.title, NoTitle),
     snippet |-> OrText(hit.body, NoBody),
     content |-> IF hit.body = None THEN <<>> ELSE hit.body[1]]

\* SearchResult(url=..., title=..., snippet=..., content=...), websearch.py:110-115
SearchResult(hit) ==
    [url |-> hit.href[1],
     title |-> OrStr(hit.title, NoTitle),
     snippet |-> OrText(hit.body, NoBody),
     content |-> OrText(hit.body, NoBody)]

\* The conversion loop of websearch.py:109-115: the results appended before
\* the first hit whose href fails validation, and whether one failed.
RECURSIVE ConvertFrom(_, _, _)
ConvertFrom(hits, i, acc) ==
    IF i > Len(hits) THEN [ok |-> TRUE, data |-> acc]
    ELSE IF ~HttpUrl(hits[i].href) THEN [ok |-> FALSE, data |-> acc]
    ELSE ConvertFrom(hits, i + 1, Append(acc, SearchResult(hits[i])))

Convert(hits) == ConvertFrom(hits, 1, <<>>)

----------------------------------------------------------------------------
\* Content fetcher, pure parts (scraper.py)

\* text[:n], n >= 0
Truncate(text, n) == SubSeq(text, 1, Min(n, Len(text)))

\* Variant: split on the space character only, split(' ')
IsSpace_space_only(c) == c = " "

\* str.split() with no argument splits on any whitespace
IsSpace(c) == c \in {" ", "\n", "\t"}

\* ' '.join(text.split()), scraper.py:131
RECURSIVE JoinSplit(_, _, _)
JoinSplit(text, i, acc) ==
    IF i > Len(text) THEN acc
    ELSE IF IsSpace(text[i]) THEN JoinSplit(text, i + 1, acc)
    ELSE LET startsWord == i = 1 \/ IsSpace(text[i - 1])
             sep == IF startsWord /\ acc # <<>> THEN <<" ">> ELSE <<>>
         IN JoinSplit(text, i + 1, acc \o sep \o <<text[i]>>)

Clean(text) == JoinSplit(text, 1, <<>>)

\* Variant: only server errors rejected
raise_for_status_5xx_only(status) == 500 <= status /\ status < 600

\* response.raise_for_status(): HTTPError for 4xx and 5xx
raise_for_status(status) == 400 <= status /\ status < 600

\* 'text/html' in content_type, scraper.py:100
IsHtml(ctype) == ctype \in {"text/html", "text/html; charset=utf-8"}

\* The except clauses of scraper.py:138-152: what fetch_content returns
\* when exc was raised inside the try block.
fetch_content_except(exc, search_result) ==
    CASE exc = "Timeout" -> search_result
      [] exc = "ConnectionError" -> search_result
      [] exc = "HTTPError" -> search_result
      [] exc = "RequestException" -> search_result
      [] OTHER -> search_result

\* scraper.py:119-136, from the extractor's output to the returned value.
\* len(None) at line 124 raises TypeError, which line 150 catches.
fetch_content_store(search_result, extracted_text, max_content_length) ==
    IF extracted_text = None
    THEN fetch_content_except("TypeError", search_result)
    ELSE LET text == extracted_text[1]
             truncated == IF text # <<>> /\ Len(text) > max_content_length
                          THEN Truncate(text, max_content_length)
                          ELSE text
         IN IF truncated = <<>>
            THEN search_result
            ELSE [search_result EXCEPT !.content = Clean(truncated)]

\* Variant: insert(0, ...) instead of append
fetch_multiple_append_front(arg, new, item) == [arg |-> arg, new |-> <<item>> \o new]

\* Variant: an entry that came back unchanged ends the batch, the remaining
\* entries are passed through without being fetched
fetch_multiple_append_abort(arg, new, item) ==
    [arg |-> arg,
     new |-> IF item = arg[Len(new) + 1]
             THEN new \o SubSeq(arg, Len(new) + 1, Len(arg))
             ELSE Append(new, item)]

\* scraper.py:172-174: the append goes to the new list, the list passed in
\* is only read.
fetch_multiple_append(arg, new, item) == [arg |-> arg, new |-> Append(new, item)]

\* Variant: __exit__ that does not close the session
WebScraper_exit_noop(held) == held

\* WebScraper.__exit__ -> close(), scraper.py:177-202
WebScraper_exit(held) == held \ {"Session"}

----------------------------------------------------------------------------
\* Environment: provider, HTTP client, extractor

Statuses == {200, 300, 404}
CTypes == {"text/html", "application/pdf"}
GetKinds == {"response", "Timeout", "ConnectionError", "RequestException"}
ChunkLens == {0, 2}

NoResp == [status |-> 0, ctype |-> ""]

\* How one host answers, when the answers are fixed in advance
Page(get, status, ctype, chunks, err, text) ==
    [get |-> get, status |-> status, ctype |-> ctype, chunks |-> chunks,
     read_err |-> err, extracted |-> text]

Pages == {
    Page("response", 200, "text/html", <<2, 0>>, FALSE, Some(<<"a", "a">>)),
    Page("response", 200, "text/html", <<1>>, FALSE, Some(<<" ", "a">>)),
    Page("response", 200, "text/html", <<>>, FALSE, None),
    Page("response", 200, "text/html", <<1>>, TRUE, None),
    Page("response", 200, "application/pdf", <<>>, FALSE, None),
    Page("response", 404, "text/html", <<>>, FALSE, None),
    Page("Timeout", 0, "", <<>>, FALSE, None) }

Providers == {
    [raises |-> TRUE, hits |-> <<>>],
    [raises |-> FALSE, hits |-> <<>>],
    [raises |-> FALSE, hits |-> <<[href |-> Some(UrlA), title |-> Some("A"), body |-> Some(<<"B">>)],
                                  [href |-> Some(UrlB), title |-> None, body |-> Some(<<>>)]>>],
    [raises |-> FALSE, hits |-> <<[href |-> Some(UrlB), title |-> None, body |-> Some(<<>>)],
                                  [href |-> None, title |-> Some("A"), body |-> Some(<<"B">>)]>>] }

FreeEnv ==
    [free |-> TRUE,
     provider |-> [raises |-> FALSE, hits |-> <<>>],
     pages |-> [h \in Hosts |-> Page("Timeout", 0, "", <<>>, FALSE, None)]]

FixedEnvs == [free : {FALSE}, provider : Providers, pages : [Hosts -> Pages]]

\* ddgs.text(query, safesearch, max_results, backend): raises, or returns at
\* most max_results hits in its ranking order (the provider is taken to
\* honour the max_results it is called with; _ainvoke itself never cuts the
\* list).
ProviderOutcomes(max_results) ==
    IF env.free
    THEN {[raises |-> TRUE, hits |-> <<>>]}
         \cup {[raises |-> FALSE, hits |-> h] : h \in HitSeqs(Min(max_results, MaxHits))}
    ELSE {[raises |-> env.provider.raises,
           hits |-> SubSeq(env.provider.hits, 1, Min(max_results, Len(env.provider.hits)))]}

GetOutcomes(host) ==
    IF env.free THEN GetKinds ELSE {env.pages[host].get}

Responses(host) ==
    IF env.free THEN [status : Statuses, ctype : CTypes]
    ELSE {[status |-> env.pages[host].status, ctype |-> env.pages[host].ctype]}

\* What response.iter_content yields next: a chunk of n characters, the end
\* of the stream, or an exception.
ReadEvents(host) ==
    IF env.free
    THEN (IF nchunks < MaxChunks
          THEN {[ev |-> "chunk", n |-> n] : n \in ChunkLens} ELSE {})
         \cup {[ev |-> "end", n |-> 0], [ev |-> "error", n |-> 0]}
    ELSE LET p == env.pages[host]
         IN IF nchunks < Len(p.chunks) THEN {[ev |-> "chunk", n |-> p.chunks[nchunks + 1]]}
            ELSE IF p.read_err THEN {[ev |-> "error", n |-> 0]}
            ELSE {[ev |-> "end", n |-> 0]}

\* What trafilatura.extract returns: None or a text
ExtractOutputs(host) ==
    IF env.free THEN Opt(Texts) ELSE {env.pages[host].extracted}

----------------------------------------------------------------------------
\* Initial state: a caller about to make one search call

Params ==
    [max_results : Opt(0..MaxRequested),
     fetch_content : Opt(BOOLEAN),
     fetch_content_max_chars : Opt(0..MaxRequested),
     safesearch : {None},
     backend : {None}]

NoArgs ==
    [max_results |-> 0, fetch_content |-> FALSE, fetch_content_max_chars |-> 0,
     safesearch |-> "", backend |-> ""]

NoFirst == [pc |-> "", result |-> <<>>, error |-> ""]

InitCall ==
    /\ pc = "idle"
    /\ args = NoArgs
    /\ open = {}
    /\ ddgs_out = ""
    /\ raw = <<>>
    /\ search_results = <<>>
    /\ fm_arg = <<>>
    /\ new_results = <<>>
    /\ idx = 0
    /\ budget = 0
    /\ get_out = ""
    /\ resp = NoResp
    /\ content = 0
    /\ nchunks = 0
    /\ read_err = FALSE
    /\ extracted = None
    /\ fetches = 0
    /\ result = <<>>
    /\ error = ""
    /\ first = NoFirst

\* The event loop left out of the picture: the call has the thread throughout
NoLoop == [holder |-> "call", peer |-> "none", waiting |-> <<>>]

Init ==
    /\ InitCall
    /\ params \in Params
    /\ env = FreeEnv
    /\ loop = NoLoop

InitEq ==
    /\ InitCall
    /\ params \in Params
    /\ env \in FixedEnvs
    /\ loop = NoLoop

\* Every search parameter omitted or supplied, safesearch and backend included
ParamsAll ==
    [max_results : Opt(0..MaxRequested),
     fetch_content : Opt(BOOLEAN),
     fetch_content_max_chars : Opt(0..MaxRequested),
     safesearch : Opt({"strict"}),
     backend : Opt({"bing"})]

InitArgs ==
    /\ InitCall
    /\ params \in ParamsAll
    /\ env = FreeEnv
    /\ loop = NoLoop

\* A search with fetch_content on, whose provider returns one hit and whose
\* page extracts to a text with spaces, tabs and newlines
InitClean ==
    /\ InitCall
    /\ params \in [max_results : {None},
                   fetch_content : {Some(TRUE)},
                   fetch_content_max_chars : Opt(0..MaxRequested),
                   safesearch : {None},
                   backend : {None}]
    /\ \E t \in CleanTexts :
          env = [free |-> FALSE,
                 provider |-> [raises |-> FALSE,
                               hits |-> <<[href |-> Some(UrlA), title |-> Some("A"),
                                           body |-> Some(<<"B">>)]>>],
                 pages |-> [h \in Hosts |->
                              Page("response", 200, "text/html", <<2>>, FALSE, Some(t))]]
    /\ loop = NoLoop

\* An event loop with two tasks ready to run: an ainvoke call and a peer task
InitLoop ==
    /\ InitCall
    /\ params \in Params
    /\ env = FreeEnv
    /\ loop = [holder |-> "loop", peer |-> "ready", waiting |-> <<>>]

----------------------------------------------------------------------------
\* Search orchestrator (websearch.py)

\* Variant: invoke forwarding no fetch_content_max_chars
invoke_call_drop_max_chars(p) ==
    <<p.max_results, p.fetch_content, None, p.safesearch, p.backend>>

\* The positional arguments invoke (line 160) and ainvoke (line 190) hand to
\* _ainvoke, after query
invoke_call(p) ==
    <<p.max_results, p.fetch_content, p.fetch_content_max_chars, p.safesearch, p.backend>>

ainvoke_call(p) ==
    <<p.max_results, p.fetch_content, p.fetch_content_max_chars, p.safesearch, p.backend>>

\* _ainvoke's signature (lines 65-72) binds them, lines 87-91 apply defaults
ainvoke_defaults(t) ==
    [max_results |-> OrInt(t[1], WebSearch_max_results),
     fetch_content |-> OrBool(t[2], WebSearch_fetch_content),
     fetch_content_max_chars |-> OrInt(t[3], WebSearch_fetch_content_max_chars),
     safesearch |-> OrStr(t[4], WebSearch_safesearch),
     backend |-> OrStr(t[5], WebSearch_backend)]

\* Lines 87-96: defaults, then async with httpx.AsyncClient()
Enter(t) ==
    /\ pc = "idle"
    /\ args' = ainvoke_defaults(t)
    /\ open' = {"AsyncClient"}
    /\ pc' = "ddgs"
    /\ UNCHANGED <<loop, params, ddgs_out, raw, search_results, fm_arg, new_results, idx,
                   budget, get_out, resp, content, nchunks, read_err, extracted,
                   fetches, result, error, env, first>>

\* Under a fixed environment the caller compares the two entry points:
\* invoke first, ainvoke second.
Invoke ==
    /\ env.free \/ first.pc = ""
    /\ Enter(invoke_call(params))

Ainvoke ==
    /\ env.free \/ first.pc # ""
    /\ Enter(ainvoke_call(params))

\* Line 98: with DDGS() as ddgs
DdgsEnter ==
    /\ pc = "ddgs"
    /\ open' = open \cup {"DDGS"}
    /\ pc' = "ddgs_text"
    /\ UNCHANGED <<loop, params, args, ddgs_out, raw, search_results, fm_arg,
                   new_results, idx, budget, get_out, resp, content, nchunks,
                   read_err, extracted, fetches, result, error, env, first>>

\* Variant: a provider error swallowed, the search going on with no hits
after_ddgs_text_swallow(o, held) ==
    [pc |-> "convert", error |-> "", raw |-> o.hits, open |-> held \ {"DDGS"}]

\* Lines 96-101: nothing catches what ddgs.text raises, so it leaves both
\* with blocks and _ainvoke; a normal return leaves the DDGS block only.
after_ddgs_text(o, held) ==
    IF o.raises
    THEN [pc |-> "raised", error |-> "ProviderError", raw |-> <<>>, open |-> {}]
    ELSE [pc |-> "convert", error |-> "", raw |-> o.hits, open |-> held \ {"DDGS"}]

DdgsText ==
    /\ pc = "ddgs_text"
    /\ \E o \in ProviderOutcomes(args.max_results) :
          LET a == after_ddgs_text(o, open)
          IN /\ ddgs_out' = IF o.raises THEN "raised" ELSE "returned"
             /\ pc' = a.pc
             /\ error' = a.error
             /\ raw' = a.raw
             /\ open' = a.open
    /\ UNCHANGED <<loop, params, args, search_results, fm_arg, new_results, idx,
                   budget, get_out, resp, content, nchunks, read_err, extracted,
                   fetches, result, env, first>>

\* Lines 106-122: build the SearchResults; a ValidationError leaves _ainvoke
ConvertHits ==
    /\ pc = "convert"
    /\ LET r == Convert(raw)
       IN /\ search_results' = r.data
          /\ IF r.ok
             THEN /\ pc' = IF args.fetch_content THEN "scrape" ELSE "return"
                  /\ UNCHANGED <<error, open>>
             ELSE /\ pc' = "raised"
                  /\ error' = "ValidationError"
                  /\ open' = {}
    /\ UNCHANGED <<loop, params, args, ddgs_out, raw, fm_arg, new_results, idx,
                   budget, get_out, resp, content, nchunks, read_err, extracted,
                   fetches, result, env, first>>

\* Lines 125-126 and scraper.py:172: with WebScraper() as scraper, and the
\* start of fetch_multiple
ScraperEnter ==
    /\ pc = "scrape"
    /\ open' = open \cup {"Session"}
    /\ fm_arg' = search_results
    /\ new_results' = <<>>
    /\ idx' = 0
    /\ pc' = "fm_loop"
    /\ UNCHANGED <<loop, params, args, ddgs_out, raw, search_results, budget,
                   get_out, resp, content, nchunks, read_err, extracted, fetches,
                   result, error, env, first>>

\* fetch_content returns item: scraper.py:174 appends it
Finish(item) ==
    LET a == fetch_multiple_append(fm_arg, new_results, item)
    IN /\ fm_arg' = a.arg
       /\ new_results' = a.new
       /\ pc' = "fm_loop"

\* scraper.py:173 and 73-102: the next entry; fetch_content up to the
\* content-type test.  get_out, resp, read_err and extracted keep what the environment
\* answered for an entry until the next entry starts or fetch_multiple returns.
FcGet ==
    /\ pc = "fm_loop"
    /\ Len(new_results) < Len(fm_arg)
    /\ LET sr == fm_arg[Len(new_results) + 1]
       IN /\ idx' = Len(new_results) + 1
          /\ budget' = OrInt(Some(args.fetch_content_max_chars), WebScraper_max_content_length)
          /\ content' = 0
          /\ nchunks' = 0
          /\ read_err' = FALSE
          /\ extracted' = None
          /\ IF sr.url.scheme = "" \/ sr.url.host = ""
             THEN /\ get_out' = ""
                  /\ resp' = NoResp
                  /\ fetches' = fetches
                  /\ Finish(sr)
             ELSE /\ fetches' = fetches + 1
                  /\ \E g \in GetOutcomes(sr.url.host) :
                        /\ get_out' = g
                        /\ IF g # "response"
                           THEN /\ resp' = NoResp
                                /\ Finish(fetch_content_except(g, sr))
                           ELSE \E r \in Responses(sr.url.host) :
                                   /\ resp' = r
                                   /\ IF raise_for_status(r.status) \/ ~IsHtml(r.ctype)
                                      THEN Finish(sr)
                                      ELSE /\ pc' = "fc_read"
                                           /\ UNCHANGED <<fm_arg, new_results>>
    /\ UNCHANGED <<loop, params, args, open, ddgs_out, raw, search_results,
                   result, error, env, first>>

\* scraper.py:105-108: one turn of the iter_content loop
FcRead ==
    /\ pc = "fc_read"
    /\ LET sr == fm_arg[idx]
       IN \E e \in ReadEvents(sr.url.host) :
             CASE e.ev = "chunk" ->
                    /\ nchunks' = nchunks + 1
                    /\ content' = IF e.n > 0 THEN content + e.n ELSE content
                    /\ UNCHANGED <<pc, read_err, fm_arg, new_results>>
               [] e.ev = "end" ->
                    /\ pc' = "fc_extract"
                    /\ UNCHANGED <<nchunks, content, read_err, fm_arg, new_results>>
               [] e.ev = "error" ->
                    /\ read_err' = TRUE
                    /\ Finish(fetch_content_except("Exception", sr))
                    /\ UNCHANGED <<nchunks, content>>
    /\ UNCHANGED <<loop, params, args, open, ddgs_out, raw, search_results, idx,
                   budget, get_out, resp, extracted, fetches, result, error, env,
                   first>>

\* scraper.py:111-136: extract, truncate, clean, copy
FcExtract ==
    /\ pc = "fc_extract"
    /\ LET sr == fm_arg[idx]
       IN \E x \in ExtractOutputs(sr.url.host) :
             /\ extracted' = x
             /\ Finish(fetch_content_store(sr, x, budget))
    /\ content' = 0
    /\ nchunks' = 0
    /\ UNCHANGED <<loop, params, args, open, ddgs_out, raw, search_results, idx,
                   budget, get_out, resp, read_err, fetches, result, error, env,
                   first>>

\* scraper.py:175 and websearch.py:125-126: fetch_multiple returns, the with
\* block exits, search_results is rebound
FmReturn ==
    /\ pc = "fm_loop"
    /\ Len(new_results) >= Len(fm_arg)
    /\ search_results' = new_results
    /\ open' = WebScraper_exit(open)
    /\ pc' = "return"
    /\ get_out' = ""
    /\ resp' = NoResp
    /\ read_err' = FALSE
    /\ extracted' = None
    /\ UNCHANGED <<loop, params, args, ddgs_out, raw, fm_arg, new_results, idx,
                   budget, content, nchunks, fetches, result, error, env, first>>

\* websearch.py:130: return search_results, leaving async with
Return ==
    /\ pc = "return"
    /\ result' = search_results
    /\ open' = open \ {"AsyncClient"}
    /\ pc' = "done"
    /\ UNCHANGED <<loop, params, args, ddgs_out, raw, search_results, fm_arg,
                   new_results, idx, budget, get_out, resp, content, nchunks,
                   read_err, extracted, fetches, error, env, first>>

\* The caller makes the same call again, through ainvoke
SecondCall ==
    /\ pc \in {"done", "raised"}
    /\ first.pc = ""
    /\ first' = [pc |-> pc, result |-> result, error |-> error]
    /\ pc' = "idle"
    /\ args' = NoArgs
    /\ open' = {}
    /\ ddgs_out' = ""
    /\ raw' = <<>>
    /\ search_results' = <<>>
    /\ fm_arg' = <<>>
    /\ new_results' = <<>>
    /\ idx' = 0
    /\ budget' = 0
    /\ get_out' = ""
    /\ resp' = NoResp
    /\ content' = 0
    /\ nchunks' = 0
    /\ read_err' = FALSE
    /\ extracted' = None
    /\ fetches' = 0
    /\ result' = <<>>
    /\ error' = ""
    /\ UNCHANGED <<loop, params, env>>

Next ==
    \/ Invoke
    \/ Ainvoke
    \/ DdgsEnter
    \/ DdgsText
    \/ ConvertHits
    \/ ScraperEnter
    \/ FcGet
    \/ FcRead
    \/ FcExtract
    \/ FmReturn
    \/ Return

NextEq ==
    \/ Next
    \/ SecondCall

Spec == Init /\ [][Next]_vars

SpecEq == InitEq /\ [][NextEq]_vars

----------------------------------------------------------------------------
\* The ainvoke call as one task of an asyncio event loop

\* The call is at one of its network operations: ddgs.text (websearch.py:99),
\* session.get (scraper.py:84) or the next chunk of iter_content
\* (scraper.py:105)
AtNetwork ==
    \/ pc = "ddgs_text"
    \/ pc = "fm_loop" /\ Len(new_results) < Len(fm_arg)
    \/ pc = "fc_read"

\* Names the network operation the call is at
Token == <<pc, Len(new_results), nchunks>>

\* The call has issued that operation and its answer has not come back
Waiting == AtNetwork /\ loop.waiting = Token

\* The call issues the network operation.  ddgs.text, session.get and
\* iter_content are plain calls of synchronous libraries, made without await:
\* the call keeps the thread while it waits for the answer.
NetBegin ==
    /\ loop.holder = "call"
    /\ AtNetwork
    /\ ~Waiting
    /\ loop' = [loop EXCEPT !.waiting = Token]
    /\ UNCHANGED <<pc, params, args, open, ddgs_out, raw, search_results, fm_arg,
                   new_results, idx, budget, get_out, resp, content, nchunks,
                   read_err, extracted, fetches, result, error, env, first>>

\* The awaits of _ainvoke: entering (line 96) and leaving (line 130) the
\* async with block.  The awaited __aenter__ / __aexit__ may hand the thread
\* back to the loop.
AwaitYield ==
    /\ loop.holder = "call"
    /\ pc \in {"ddgs", "return"}
    /\ loop' = [loop EXCEPT !.holder = "loop"]
    /\ UNCHANGED <<pc, params, args, open, ddgs_out, raw, search_results, fm_arg,
                   new_results, idx, budget, get_out, resp, content, nchunks,
                   read_err, extracted, fetches, result, error, env, first>>

\* The call's coroutine ended (return or exception): the thread goes back
\* to the loop
TaskEnd ==
    /\ loop.holder = "call"
    /\ pc \in {"done", "raised"}
    /\ loop' = [loop EXCEPT !.holder = "loop"]
    /\ UNCHANGED <<pc, params, args, open, ddgs_out, raw, search_results, fm_arg,
                   new_results, idx, budget, get_out, resp, content, nchunks,
                   read_err, extracted, fetches, result, error, env, first>>

\* The loop runs the call: starts it or resumes it after an await
LoopResume ==
    /\ loop.holder = "loop"
    /\ pc \notin {"done", "raised"}
    /\ loop' = [loop EXCEPT !.holder = "call"]
    /\ UNCHANGED <<pc, params, args, open, ddgs_out, raw, search_results, fm_arg,
                   new_results, idx, budget, get_out, resp, content, nchunks,
                   read_err, extracted, fetches, result, error, env, first>>

\* The loop runs the peer task
PeerRun ==
    /\ loop.holder = "loop"
    /\ loop.peer = "ready"
    /\ loop' = [loop EXCEPT !.peer = IF AtNetwork THEN "ran during network"
                                     ELSE "ran"]
    /\ UNCHANGED <<pc, params, args, open, ddgs_out, raw, search_results, fm_arg,
                   new_results, idx, budget, get_out, resp, content, nchunks,
                   read_err, extracted, fetches, result, error, env, first>>

\* A step of the call's own code: it runs while the call has the thread,
\* and a network operation goes on once it has been issued
CallStep ==
    /\ loop.holder = "call"
    /\ AtNetwork => Waiting
    /\ \/ Ainvoke
       \/ DdgsEnter
       \/ DdgsText
       \/ ConvertHits
       \/ ScraperEnter
       \/ FcGet
       \/ FcRead
       \/ FcExtract
       \/ FmReturn
       \/ Return

NextLoop ==
    \/ LoopResume
    \/ CallStep
    \/ NetBegin
    \/ AwaitYield
    \/ TaskEnd
    \/ PeerRun

SpecArgs == InitArgs /\ [][Next]_vars

SpecClean == InitClean /\ [][NextEq]_vars

SpecLoop == InitLoop /\ [][NextLoop]_vars

----------------------------------------------------------------------------
\* Properties

\* fetch_content has just returned for entry idx of the batch
Fetched == pc = "fm_loop" /\ idx > 0

\* The content fetch_content stored for entry idx differs from what it was given
Enriched == Fetched /\ new_results[idx].content # fm_arg[idx].content

SameHit(a, b) == a.url = b.url /\ a.title = b.title /\ a.snippet = b.snippet

\* Per-item failure kinds, as the environment produced them for entry idx
FailUrl == fm_arg[idx].url.scheme = "" \/ fm_arg[idx].url.host = ""
FailTimeout == get_out = "Timeout"
FailConnection == get_out \in {"ConnectionError", "RequestException"}
FailNon2xx == get_out = "response" /\ ~(200 <= resp.status /\ resp.status <= 299)
FailHttpError == get_out = "response" /\ resp.status >= 400
FailNonHtml == get_out = "response" /\ resp.ctype = "application/pdf"
FailDecode == read_err
FailNothing ==
    /\ get_out = "response"
    /\ extracted \in {None, Some(<<>>)}

\* C1 (as stated): after any per-item failure - URL without scheme or host,
\* timeout, connection error, non-2xx status, non-HTML content type, decode
\* error, extractor returning nothing - fetch_content returns its input
\* unaltered, and no exception reaches the caller of the fetch.
C1_FailureReturnsInput ==
    /\ fetches > 0 => pc # "raised"
    /\ (Fetched /\ (FailUrl \/ FailTimeout \/ FailConnection \/ FailNon2xx
                    \/ FailNonHtml \/ FailDecode \/ FailNothing))
          => new_results[idx] = fm_arg[idx]

\* C1 (amended): the same, with the status failure being an HTTP error
\* status (4xx or 5xx) instead of any non-2xx status.
C1_ErrorStatusReturnsInput ==
    /\ fetches > 0 => pc # "raised"
    /\ (Fetched /\ (FailUrl \/ FailTimeout \/ FailConnection \/ FailHttpError
                    \/ FailNonHtml \/ FailDecode \/ FailNothing))
          => new_results[idx] = fm_arg[idx]

\* C1 witness: a page answered 404 with an HTML body, and the entry came back as given
C1_Witness ==
    /\ Fetched
    /\ get_out = "response"
    /\ resp = [status |-> 404, ctype |-> "text/html"]
    /\ new_results[idx] = fm_arg[idx]

\* C2 (as stated): when the provider call returns normally the search never
\* raises, whatever the raw hits are.
C2_OnlyProviderErrors == ddgs_out = "returned" => pc # "raised"

\* C3: when the provider call raises, the search ends raising that error:
\* nothing is converted, no page is fetched, no collection is returned.
C3_ProviderErrorSurfaces ==
    ddgs_out = "raised" =>
        /\ pc = "raised"
        /\ error = "ProviderError"
        /\ search_results = <<>>
        /\ new_results = <<>>
        /\ result = <<>>
        /\ fetches = 0

\* C3 witness: the provider raised and the call ended with that error
C3_Witness == ddgs_out = "raised" /\ pc = "raised" /\ error = "ProviderError"

\* C4: fetch_multiple leaves the collection it was given as it was, and what
\* it builds (and returns) has, entry by entry, the url, title and snippet
\* of the input, with the same length on return.
C4_FetchManyFrame ==
    args.fetch_content /\ pc \in {"fm_loop", "fc_read", "fc_extract", "return", "done"} =>
        /\ fm_arg = Convert(raw).data
        /\ Len(new_results) <= Len(fm_arg)
        /\ \A i \in 1..Len(new_results) : SameHit(new_results[i], fm_arg[i])
        /\ pc \in {"return", "done"} =>
              /\ search_results = new_results
              /\ Len(search_results) = Len(fm_arg)

\* C4 witness: a batch of two returned, the first entry enriched, the second not
C4_Witness ==
    /\ pc = "return"
    /\ args.fetch_content
    /\ Len(search_results) = 2
    /\ search_results[1].content # fm_arg[1].content
    /\ search_results[2] = fm_arg[2]
    /\ fm_arg[1].url # fm_arg[2].url

\* C5 (as stated): a search that returns has at most the requested
\* max_results entries.
C5_AtMostRequested ==
    pc = "done" /\ params.max_results # None => Len(result) <= params.max_results[1]

\* C6: a search called with fetch_content = false fetches no page, and every
\* result it returns has content equal to its snippet.
C6_NoFetchContentIsSnippet ==
    params.fetch_content = Some(FALSE) =>
        /\ fetches = 0
        /\ pc = "done" => \A i \in 1..Len(result) : result[i].content = result[i].snippet

\* C6 witness: such a search returned two results, one of them built from a
\* hit with an empty body
C6_Witness ==
    /\ pc = "done"
    /\ params.fetch_content = Some(FALSE)
    /\ Len(result) = 2
    /\ result[2].snippet = NoBody

\* C7 (as stated): the content a successful fetch stores is no longer than
\* the budget the caller passed as fetch_content_max_chars.
C7_WithinBudget ==
    Enriched /\ params.fetch_content_max_chars # None =>
        Len(new_results[idx].content) <= params.fetch_content_max_chars[1]

\* C8 (as stated): no further chunk is read once the accumulated body has
\* passed the budget.
C8_ReadStopsAtBudget ==
    [][(pc = "fc_read" /\ nchunks' = nchunks + 1) => content <= budget]_vars

\* C9: when the search has returned or raised, it holds no client or session.
C9_AllReleased == pc \in {"done", "raised"} => open = {}

\* C9 witness: a search that opened the scraper session and fetched pages
\* has returned, and nothing is held
C9_Witness == pc = "done" /\ fetches > 0 /\ open = {}

\* C10: with the same parameters and the same provider and HTTP answers,
\* ainvoke ends as invoke did: the same collection, or the same error.
C10_SameOutput ==
    first.pc # "" /\ pc \in {"done", "raised"} =>
        /\ pc = first.pc
        /\ result = first.result
        /\ error = first.error

\* C10 witness: both calls returned a collection with an enriched entry
\* whose extracted text was cut to the budget
C10_Witness ==
    /\ first.pc = "done"
    /\ pc = "done"
    /\ params.fetch_content_max_chars = Some(1)
    /\ \E i \in 1..Len(result) : result[i].content = <<"a">> /\ result[i].snippet # <<"a">>

\* C11 (as stated): every result in the collection being converted, being
\* built by fetch_multiple or returned by the search has non-empty content.
C11_ContentNonEmpty ==
    /\ \A i \in 1..Len(search_results) : search_results[i].content # <<>>
    /\ \A i \in 1..Len(new_results) : new_results[i].content # <<>>
    /\ \A i \in 1..Len(result) : result[i].content # <<>>

\* C12 (as stated): each parameter reaches the provider and the content
\* fetcher as the value the caller supplied, and as the default (5, false,
\* 10000, "moderate", "google") only when the caller omitted it.
C12_SuppliedOrDefault ==
    /\ pc # "idle" =>
          /\ args.max_results =
                IF params.max_results = None THEN 5 ELSE params.max_results[1]
          /\ args.fetch_content =
                IF params.fetch_content = None THEN FALSE ELSE params.fetch_content[1]
          /\ args.fetch_content_max_chars =
                IF params.fetch_content_max_chars = None THEN 10000
                ELSE params.fetch_content_max_chars[1]
          /\ args.safesearch =
                IF params.safesearch = None THEN "moderate" ELSE params.safesearch[1]
          /\ args.backend =
                IF params.backend = None THEN "google" ELSE params.backend[1]
    /\ idx > 0 =>
          budget = IF params.fetch_content_max_chars = None THEN 10000
                   ELSE params.fetch_content_max_chars[1]

\* The answers fixed for a host make fetch_content succeed
PageSucceeds(p) ==
    /\ p.get = "response"
    /\ p.status < 400
    /\ p.ctype = "text/html"
    /\ ~p.read_err
    /\ p.extracted \notin {None, Some(<<>>)}

\* C13: within one fetch_multiple batch every entry is attempted exactly once
\* (one request per entry, one result per attempted entry, all entries
\* attempted on return), an entry whose own fetch fails comes back unchanged,
\* and an entry whose own fetch succeeds is enriched whatever happened to the
\* other entries.
C13_NoCrossItemEffect ==
    args.fetch_content /\ pc \in {"fm_loop", "fc_read", "fc_extract", "return", "done"} =>
        /\ fetches = idx
        /\ Len(new_results) = IF pc \in {"fc_read", "fc_extract"} THEN idx - 1 ELSE idx
        /\ pc \in {"return", "done"} => idx = Len(fm_arg)
        /\ \A i \in 1..Len(new_results) :
              IF PageSucceeds(env.pages[fm_arg[i].url.host])
              THEN new_results[i].content # fm_arg[i].content
              ELSE new_results[i] = fm_arg[i]

\* C13 witness: a batch of two returned whose first entry timed out and came
\* back unchanged and whose second entry was enriched
C13_Witness ==
    /\ pc = "return"
    /\ Len(new_results) = 2
    /\ env.pages[fm_arg[1].url.host].get = "Timeout"
    /\ new_results[1] = fm_arg[1]
    /\ PageSucceeds(env.pages[fm_arg[2].url.host])
    /\ new_results[2].content # fm_arg[2].content

\* C14 (as stated): the call suspends at the provider network call and at
\* each page fetch: while it waits there it has handed the thread back to
\* the event loop, so that another task can run.
C14_SuspendsAtNetwork == Waiting => loop.holder = "loop"

\* The characters the claim counts as whitespace
Whitespace == {" ", "\t", "\n"}

NotWhitespace(c) == c \notin Whitespace

\* C15: whatever the extractor returned, the content a successful
\* fetch_content stores has no whitespace character other than the space,
\* every space in it stands between two non-whitespace characters (so no two
\* whitespace characters are adjacent and none leads or trails), and its
\* words are those of the (truncated) extractor output, in order.
C15_WhitespaceCollapsed ==
    Fetched /\ extracted # None =>
        LET text == extracted[1]
            kept == SubSeq(text, 1, IF Len(text) > budget THEN budget ELSE Len(text))
            c == new_results[idx].content
        IN /\ \A i \in 1..Len(c) :
                 c[i] \in Whitespace =>
                    /\ c[i] = " "
                    /\ 1 < i /\ i < Len(c)
                    /\ c[i - 1] \notin Whitespace
                    /\ c[i + 1] \notin Whitespace
           /\ SelectSeq(c, NotWhitespace) = SelectSeq(kept, NotWhitespace)

\* C15 witness: the extractor returned "a\n\ta" and "a a" was stored
C15_Witness ==
    /\ Fetched
    /\ extracted = Some(<<"a", "\n", "\t", "a">>)
    /\ new_results[idx].content = <<"a", " ", "a">>

====
